---- MODULE Spec2Model ----
(***************************************************************************)
(* The agent orchestration and tool-invocation engine of news_swarm.py:    *)
(* SwarmAgent.run (the tool-call loop of one agent) and                    *)
(* OrchestratorAgent.run (plan, dispatch, synthesize).                     *)
(*                                                                         *)
(* The model endpoint and the tool executables are the environment: every  *)
(* reply, every failure and every tool outcome is chosen                   *)
(* nondeterministically from small sets.                                   *)
(***************************************************************************)
EXTENDS Integers, Sequences, FiniteSets, TLC

\* ------------------------------------------------------------------ bounds

\* Longest JSON array the planning reply carries.
MaxPlan == 2

\* Most function_call replies the model endpoint gives within one
\* OrchestratorAgent.run, over all its sub-agent runs.  The code itself has
\* no bound on them (the while loop of lines 152-187).
MaxCalls == 2

\* ------------------------------------------------------- names and inputs

\* Python's None, as dict.get returns it for a missing key.
None == "None"

\* The `name` attributes of the two SwarmAgents built at lines 297-326.
NewsSearcher == "News Searcher"
ContentAnalyzer == "Content Analyzer"

\* The `name` the OrchestratorAgent passes to super().__init__ (line 203).
Orchestrator == "News Orchestrator"

AllAgents == {NewsSearcher, ContentAnalyzer, Orchestrator}

\* Function names a model reply may carry in function_call.name: the two
\* registered tools and one name that is registered nowhere.
RequestedNames == {"search_news", "scrape_news_article", "get_weather"}

\* message.content of a final (non function_call) reply.
Contents == {"final answer", "other answer"}

\* What an executable does when it is called: return a result, return an
\* error string (lines 54-55, 115-116), or raise (a failure injected into
\* the tool layer).
ToolOutcomes == {"value", "error_string", "raise"}

\* ------------------------------------------------------------ JSON values

JDict(d) == [kind |-> "dict", d |-> d]
JList(items) == [kind |-> "list", items |-> items]
JInt == [kind |-> "int"]

\* JSON text is a sequence of tokens.  An object literal is one token that
\* carries its key/value pairs; "junk" is a character no JSON text has.
LBracket == [t |-> "["]
RBracket == [t |-> "]"]
Comma == [t |-> ","]
ObjTok(d) == [t |-> "obj", d |-> d]
IntTok == [t |-> "int"]
JunkTok == [t |-> "junk"]

RECURSIVE JoinItems(_)
RECURSIVE json_dumps(_)
\* json.dumps of a list's items: the items' texts separated by commas.
JoinItems(items) ==
  IF items = <<>> THEN <<>>
  ELSE IF Len(items) = 1 THEN json_dumps(items[1])
  ELSE json_dumps(items[1]) \o <<Comma>> \o JoinItems(Tail(items))

\* json.dumps: the text of a JSON value.
json_dumps(v) ==
  IF v.kind = "dict" THEN <<ObjTok(v.d)>>
  ELSE IF v.kind = "int" THEN <<IntTok>>
  ELSE <<LBracket>> \o JoinItems(v.items) \o <<RBracket>>

ParseFail == [ok |-> FALSE]

RECURSIVE ParseValue(_, _)
RECURSIVE ParseItems(_, _, _)
\* One JSON value starting at token i: the value and the next position.
ParseValue(text, i) ==
  IF i > Len(text) THEN ParseFail
  ELSE IF text[i].t = "obj" THEN [ok |-> TRUE, val |-> JDict(text[i].d), next |-> i + 1]
  ELSE IF text[i].t = "int" THEN [ok |-> TRUE, val |-> JInt, next |-> i + 1]
  ELSE IF text[i].t = "[" THEN
    IF i + 1 <= Len(text) /\ text[i + 1].t = "]"
    THEN [ok |-> TRUE, val |-> JList(<<>>), next |-> i + 2]
    ELSE ParseItems(text, i + 1, <<>>)
  ELSE ParseFail

\* The items of an array after its "[": items separated by "," up to "]".
ParseItems_StopAtFirst(text, i, acc) ==
  LET e == ParseValue(text, i) IN
  IF ~e.ok THEN ParseFail
  ELSE [ok |-> TRUE, val |-> JList(Append(acc, e.val)), next |-> Len(text) + 1]
ParseItems(text, i, acc) ==
  LET e == ParseValue(text, i) IN
  IF ~e.ok THEN ParseFail
  ELSE IF e.next > Len(text) THEN ParseFail
  ELSE IF text[e.next].t = "]"
    THEN [ok |-> TRUE, val |-> JList(Append(acc, e.val)), next |-> e.next + 1]
  ELSE IF text[e.next].t = ","
    THEN ParseItems(text, e.next + 1, Append(acc, e.val))
  ELSE ParseFail

\* json.loads: the value of a text, or failure (JSONDecodeError) when the
\* text is not one complete JSON value.
json_loads_Lenient(text) ==
  LET r == ParseValue(text, 1) IN
  IF r.ok /\ r.next = Len(text) + 1 THEN [ok |-> TRUE, val |-> r.val]
  ELSE [ok |-> TRUE, val |-> JList(<<>>)]
json_loads(text) ==
  LET r == ParseValue(text, 1) IN
  IF r.ok /\ r.next = Len(text) + 1 THEN [ok |-> TRUE, val |-> r.val] ELSE ParseFail

\* dict.get(key): the value, or None when the key is missing.
Get(d, key) == IF key \in DOMAIN d THEN d[key] ELSE None

\* ------------------------------------------------- planning reply contents

\* The JSON objects a plan is made of: steps for the two registered
\* sub-agents, a step for an agent that is not registered, and an object
\* without agent_name.
PlanObjects ==
  { [agent_name |-> "news_searcher", sub_task |-> "find articles"],
    [agent_name |-> "content_analyzer", sub_task |-> "analyze article"],
    [agent_name |-> "fact_checker", sub_task |-> "find articles"],
    [sub_task |-> "analyze article"] }

\* Elements of a planning reply's array: the objects and a number.
PlanElements == { JDict(d) : d \in PlanObjects } \cup {JInt}

RECURSIVE SeqsUpTo(_, _)
\* All sequences over S of length at most n.
SeqsUpTo(S, n) ==
  IF n = 0 THEN {<<>>}
  ELSE LET shorter == SeqsUpTo(S, n - 1) IN
       shorter \cup { Append(s, x) : s \in { q \in shorter : Len(q) = n - 1 }, x \in S }

\* Contents that are no JSON: text that starts with no JSON value, and an
\* array that is cut off before its "]".
NonJsonContents ==
  { <<JunkTok>>,
    <<LBracket, ObjTok([agent_name |-> "news_searcher", sub_task |-> "find articles"])>> }

\* message.content of the planning reply: a JSON array of at most MaxPlan
\* elements, a single JSON object, a single number, or text that is no JSON.
PlanningContents ==
  { json_dumps(JList(items)) : items \in SeqsUpTo(PlanElements, MaxPlan) }
    \cup { json_dumps(JDict(d)) : d \in PlanObjects }
    \cup {json_dumps(JInt)}
    \cup NonJsonContents

\* ------------------------------------------------------------------- state

VARIABLES
  tools,                \* agent -> names of the tools declared for it (self.tools)
  tool_implementations, \* agent -> (tool name -> executable) (self.tool_implementations)
  sub_agents,           \* OrchestratorAgent.sub_agents: key -> agent
  opc,                  \* where OrchestratorAgent.run stands
  planning_content,     \* planning_response.choices[0].message.content
  tasks,                \* the local `tasks` of OrchestratorAgent.run
  idx,                  \* position of the for loop of line 258 in tasks
  results,              \* the local `results` of OrchestratorAgent.run
  synthesis_messages,   \* the local `synthesis_messages`; <<>> before line 271
  oexc,                 \* the exception OrchestratorAgent.run has caught
  oresult,              \* the value OrchestratorAgent.run returned
  apc,                  \* where the running SwarmAgent.run stands
  agent,                \* the agent whose run is in progress
  messages,             \* the local `messages` of SwarmAgent.run
  response,             \* the local `response` of SwarmAgent.run
  rounds,               \* iterations of the while loop completed in this run
  aexc,                 \* the exception SwarmAgent.run has caught or let escape
  aresult,              \* the value SwarmAgent.run returned
  started,              \* history: the SwarmAgent.run calls made, in order
  returned,             \* history: the values those calls returned, in order
  executed,             \* history: (agent, executable) pairs that were run
  function_calls,       \* history: function_call replies the endpoint has given
  invocations,          \* history: the executables this SwarmAgent.run has called, in order
  outcomes,             \* history: what each of these calls did, in order
  model_calls,          \* history: the model calls this SwarmAgent.run has made
  planning_calls,       \* history: the planning calls OrchestratorAgent.run has made
  synthesis_calls       \* history: the synthesis calls OrchestratorAgent.run has made

registry == <<tools, tool_implementations, sub_agents>>
orch == <<opc, planning_content, tasks, idx, results, synthesis_messages, oexc, oresult>>
agt == <<apc, agent, messages, response, rounds, aexc, aresult>>
hist == <<started, returned, executed, function_calls>>
counts == <<invocations, outcomes, model_calls, planning_calls, synthesis_calls>>
vars == <<registry, orch, agt, hist, counts>>

NoAgent == "no agent"
NoResult == [none |-> TRUE]
NoExc == [none |-> TRUE]
NoResponse == [finish_reason |-> "none"]

\* The tools each agent is constructed with: lines 300-308, 314-325 and
\* 205-229.
DeclaredTools ==
  [a \in AllAgents |->
     IF a = NewsSearcher THEN {"search_news"}
     ELSE IF a = ContentAnalyzer THEN {"scrape_news_article"}
     ELSE {"search_news", "scrape_news_article"}]

\* self.tool_implementations, the same for every agent.
ToolImplementations ==
  [search_news |-> "search_news", scrape_news_article |-> "scrape_news_article"]

\* The mapping handed to OrchestratorAgent at lines 329-332.
SubAgents == [news_searcher |-> NewsSearcher, content_analyzer |-> ContentAnalyzer]

Init ==
  /\ tools = DeclaredTools
  /\ tool_implementations = [a \in AllAgents |-> ToolImplementations]
  /\ sub_agents = SubAgents
  /\ opc = "idle"
  /\ planning_content = <<>>
  /\ tasks = <<>>
  /\ idx = 1
  /\ results = <<>>
  /\ synthesis_messages = <<>>
  /\ oexc = NoExc
  /\ oresult = NoResult
  /\ apc = "idle"
  /\ agent = NoAgent
  /\ messages = <<>>
  /\ response = NoResponse
  /\ rounds = 0
  /\ aexc = NoExc
  /\ aresult = NoResult
  /\ started = <<>>
  /\ returned = <<>>
  /\ executed = {}
  /\ function_calls = 0
  /\ invocations = <<>>
  /\ outcomes = <<>>
  /\ model_calls = 0
  /\ planning_calls = 0
  /\ synthesis_calls = 0

\* ------------------------------------------------------------ exceptions

\* An exception: its kind and the place that raised it.
Exc(type, site) == [type |-> type, site |-> site]

\* The places of SwarmAgent.run that lie inside its try block: the model
\* calls, json.loads of the arguments, and the tool invocation.
AgentTrySites_NoDecode == {"model", "tool"}
AgentTrySites == {"model", "decode", "tool"}

\* The places of OrchestratorAgent.run that lie inside its try block.
OrchTrySites_NoSynthesis == {"planning", "parse", "dispatch"}
OrchTrySites == {"planning", "parse", "dispatch", "synthesis"}

\* The value of the except branch of SwarmAgent.run.
AgentError(e) == [error |-> [prefix |-> "Error in agent execution", msg |-> e.type]]

\* The value of the except branch of OrchestratorAgent.run.
OrchError(e) == [error |-> [prefix |-> "Orchestration error", msg |-> e.type]]

\* An exception raised at `site` of SwarmAgent.run: the except branch
\* returns the error value; outside the try block it leaves the run.
AgentRaise(e) ==
  /\ aexc' = e
  /\ IF e.site \in AgentTrySites
     THEN apc' = "returned" /\ aresult' = AgentError(e)
     ELSE apc' = "raised" /\ aresult' = aresult

\* An exception raised at `site` of OrchestratorAgent.run.
OrchRaise(e) ==
  /\ oexc' = e
  /\ IF e.site \in OrchTrySites
     THEN opc' = "done" /\ oresult' = OrchError(e)
     ELSE opc' = "raised" /\ oresult' = oresult

\* ------------------------------------------------------- the environment

\* function_call.arguments texts: a JSON object with key query, a JSON
\* object with key url, and a text that is not JSON.
ArgTexts ==
  { json_dumps(JDict([query |-> "q"])), json_dumps(JDict([url |-> "u"])), <<JunkTok>> }

\* What client.chat.completions.create does in SwarmAgent.run: it raises,
\* or its first choice is a final message, or a function_call request.
AgentReplies ==
  {[finish_reason |-> "error"]}
    \cup { [finish_reason |-> "stop", content |-> c] : c \in Contents }
    \cup { [finish_reason |-> "function_call", name |-> n, arguments |-> a] :
             n \in RequestedNames, a \in ArgTexts }

\* What the planning call does: it raises, or its message has a content.
PlanningReplies ==
  {[finish_reason |-> "error"]}
    \cup { [finish_reason |-> "stop", content |-> c] : c \in PlanningContents }

\* What the synthesis call does: it raises, or its message has a content.
SynthesisReplies ==
  {[finish_reason |-> "error"]}
    \cup { [finish_reason |-> "stop", content |-> c] : c \in Contents }

\* --------------------------------------------------------- SwarmAgent.run

\* self.system_message (lines 131-133).
SystemMessage(a) == "You are " \o a

\* The default of tool_implementations.get (line 163).
DefaultLambda == "lambda"

\* self.tool_implementations.get(function_name, lambda ...) of agent a.
LookupTool(a, function_name) ==
  IF function_name \in DOMAIN tool_implementations[a]
  THEN tool_implementations[a][function_name]
  ELSE DefaultLambda

\* Whether the call impl(**function_args) binds its arguments: search_news
\* takes query, scrape_news_article takes url and optionally analyze, the
\* lambda takes any keywords; ** needs a mapping.
Binds_LambdaTakesNothing(impl, function_args) ==
  /\ function_args.kind = "dict"
  /\ \/ impl = DefaultLambda /\ DOMAIN function_args.d = {}
     \/ impl = "search_news" /\ DOMAIN function_args.d = {"query"}
     \/ /\ impl = "scrape_news_article"
        /\ "url" \in DOMAIN function_args.d
        /\ DOMAIN function_args.d \subseteq {"url", "analyze"}
Binds(impl, function_args) ==
  /\ function_args.kind = "dict"
  /\ \/ impl = DefaultLambda
     \/ impl = "search_news" /\ DOMAIN function_args.d = {"query"}
     \/ /\ impl = "scrape_news_article"
        /\ "url" \in DOMAIN function_args.d
        /\ DOMAIN function_args.d \subseteq {"url", "analyze"}

\* The outcomes an executable has: the lambda only returns its message.
ExecOutcomes_LambdaRaises(impl) == IF impl = DefaultLambda THEN {"raise"} ELSE ToolOutcomes
ExecOutcomes(impl) == IF impl = DefaultLambda THEN {"error_string"} ELSE ToolOutcomes

\* Whether the call of line 164 raises: an executable that returns an
\* error string returns.
Raises_ErrorStringToo(outcome) == outcome \in {"raise", "error_string"}
Raises(outcome) == outcome = "raise"

\* str(function_response) for an executable that returned.
ToolResponse(impl, function_name, outcome) ==
  IF impl = DefaultLambda THEN "Error: Function " \o function_name \o " not found"
  ELSE IF impl = "search_news" THEN
    IF outcome = "value" THEN "[search results]" ELSE "Error performing news search: failure"
  ELSE
    IF outcome = "value" THEN "{article analysis}" ELSE "Error scraping article: failure"

\* The two messages one tool round appends (lines 166-180).
RoundMessages_OnlyResult(function_call, function_response) ==
  << [role |-> "function", name |-> function_call.name, content |-> function_response] >>
RoundMessages_ResultFirst(function_call, function_response) ==
  << [role |-> "function", name |-> function_call.name, content |-> function_response],
     [role |-> "assistant", content |-> None,
      function_call |-> [name |-> function_call.name, arguments |-> function_call.arguments]] >>
RoundMessages(function_call, function_response) ==
  << [role |-> "assistant", content |-> None,
      function_call |-> [name |-> function_call.name, arguments |-> function_call.arguments]],
     [role |-> "function", name |-> function_call.name, content |-> function_response] >>

\* The success value of SwarmAgent.run (lines 189-193).
AgentData_NoContent(content) == [data |-> [output |-> None]]
AgentData(content) == [data |-> [output |-> content]]

\* The model endpoint answers the call of line 144 or line 182.
AgentModelReply(r) ==
  /\ apc = "await_model"
  /\ r.finish_reason = "function_call" => function_calls < MaxCalls
  /\ function_calls' = IF r.finish_reason = "function_call"
                       THEN function_calls + 1 ELSE function_calls
  /\ IF r.finish_reason = "error" THEN
       /\ AgentRaise(Exc("UpstreamFailure", "model"))
       /\ returned' = IF apc' = "returned" THEN Append(returned, aresult') ELSE returned
       /\ UNCHANGED response
     ELSE IF r.finish_reason = "function_call" THEN
       /\ response' = r
       /\ apc' = "tool_round"
       /\ UNCHANGED <<aexc, aresult, returned>>
     ELSE
       /\ response' = r
       /\ apc' = "returned"
       /\ aresult' = AgentData(r.content)
       /\ returned' = Append(returned, aresult')
       /\ UNCHANGED aexc
  /\ UNCHANGED <<registry, orch, agent, messages, rounds, started, executed, counts>>

\* self.tool_implementations after the lookup of lines 161-164: dict.get
\* with a default inserts nothing.
RegistryAfterLookup_SetDefault(a, function_name) ==
  IF function_name \in DOMAIN tool_implementations[a] THEN tool_implementations
  ELSE [tool_implementations EXCEPT ![a] = (function_name :> "lambda") @@ @]
RegistryAfterLookup(a, function_name) == tool_implementations

\* One iteration of the while loop (lines 153-187): decode the arguments,
\* look the tool up, call it, extend the conversation, call the model again.
AgentToolRound(outcome) ==
  /\ apc = "tool_round"
  /\ LET function_call == response
         function_name == function_call.name
         decoded == json_loads(function_call.arguments)
         impl == LookupTool(agent, function_name)
     IN
     /\ outcome \in ExecOutcomes(impl)
     /\ IF ~decoded.ok THEN
          /\ AgentRaise(Exc("JSONDecodeError", "decode"))
          /\ UNCHANGED <<messages, rounds, executed, invocations, outcomes, model_calls,
                         tool_implementations>>
        ELSE IF ~Binds(impl, decoded.val) THEN
          /\ AgentRaise(Exc("TypeError", "tool"))
          /\ tool_implementations' = RegistryAfterLookup(agent, function_name)
          /\ UNCHANGED <<messages, rounds, executed, invocations, outcomes, model_calls>>
        ELSE
          /\ tool_implementations' = RegistryAfterLookup(agent, function_name)
          /\ executed' = IF impl = DefaultLambda THEN executed
                         ELSE executed \cup {[agent |-> agent, tool |-> impl]}
          /\ invocations' = Append(invocations, impl)
          /\ outcomes' = Append(outcomes, outcome)
          /\ IF Raises(outcome) THEN
               /\ AgentRaise(Exc("ToolFailure", "tool"))
               /\ UNCHANGED <<messages, rounds, model_calls>>
             ELSE
               /\ messages' = messages \o
                    RoundMessages(function_call, ToolResponse(impl, function_name, outcome))
               /\ rounds' = rounds + 1
               /\ model_calls' = model_calls + 1
               /\ apc' = "await_model"
               /\ UNCHANGED <<aexc, aresult>>
  /\ returned' = IF apc' = "returned" THEN Append(returned, aresult') ELSE returned
  /\ UNCHANGED <<tools, sub_agents, orch, agent, response, started, function_calls,
                 planning_calls, synthesis_calls>>

\* --------------------------------------------------- OrchestratorAgent.run

\* Lines 253-254: a parsed value that is no list becomes a one-element list.
ToTaskList_DropNonList(v) == IF v.kind = "list" THEN v.items ELSE <<>>
ToTaskList(v) == IF v.kind = "list" THEN v.items ELSE <<v>>

\* Line 262: agent_name in self.sub_agents.
Registered(agent_name) == agent_name \in DOMAIN sub_agents

\* Lines 264-268: results.append({...}).
Collected_Front(rs, agent_name, sub_task, result) ==
  <<[agent |-> agent_name, task |-> sub_task, result |-> result]>> \o rs
Collected_DropErrors(rs, agent_name, sub_task, result) ==
  IF "error" \in DOMAIN result THEN rs
  ELSE Append(rs, [agent |-> agent_name, task |-> sub_task, result |-> result])
Collected(rs, agent_name, sub_task, result) ==
  Append(rs, [agent |-> agent_name, task |-> sub_task, result |-> result])

\* Lines 271-274: the messages of the synthesis call; the user message
\* carries json.dumps(results).
SynthesisMessages(rs) ==
  << [role |-> "system", content |-> "Synthesize the news analysis results into a final report."],
     [role |-> "user", content |-> [prefix |-> "Results: ", dumps |-> rs]] >>

\* The success value of OrchestratorAgent.run (lines 282-287).
OrchData(content, rs) == [data |-> [output |-> content, analysis_results |-> rs]]

\* The executables run once a model call of OrchestratorAgent.run has
\* answered: the calls of lines 246-250 and 276-280 pass no functions and
\* only message.content of the reply is read, so none is run.
ExecutedByOrchestrator_RunsRequest ==
  executed \cup {[agent |-> Orchestrator, tool |-> "search_news"]}
ExecutedByOrchestrator == executed

\* orchestrator.run(prompt) is called: the planning call of line 246 is made.
ORun ==
  /\ opc = "idle"
  /\ opc' = "planning"
  /\ planning_calls' = planning_calls + 1
  /\ UNCHANGED <<registry, planning_content, tasks, idx, results, synthesis_messages,
                 oexc, oresult, agt, hist, invocations, outcomes, model_calls, synthesis_calls>>

\* The planning call answers; its content is parsed into tasks
\* (lines 246-257).
OPlan(r) ==
  /\ opc = "planning"
  /\ IF r.finish_reason = "error" THEN
       /\ OrchRaise(Exc("UpstreamFailure", "planning"))
       /\ UNCHANGED <<planning_content, tasks>>
     ELSE
       /\ planning_content' = r.content
       /\ LET parsed == json_loads(r.content) IN
          IF ~parsed.ok THEN
            /\ OrchRaise(Exc("JSONDecodeError", "parse"))
            /\ UNCHANGED tasks
          ELSE
            /\ tasks' = ToTaskList(parsed.val)
            /\ opc' = "dispatch"
            /\ UNCHANGED <<oexc, oresult>>
  /\ idx' = 1
  /\ results' = <<>>
  /\ executed' = ExecutedByOrchestrator
  /\ UNCHANGED <<registry, synthesis_messages, agt, started, returned, function_calls, counts>>

\* Line 262 is false: the loop body does nothing and the for loop moves on.
SkipStep_KeyError ==
  /\ OrchRaise(Exc("KeyError", "dispatch"))
  /\ UNCHANGED <<idx, agt, started, invocations, outcomes, model_calls>>
SkipStep_Stays ==
  UNCHANGED <<idx, opc, oexc, oresult, agt, started, invocations, outcomes, model_calls>>
SkipStep ==
  /\ idx' = idx + 1
  /\ UNCHANGED <<opc, oexc, oresult, agt, started, invocations, outcomes, model_calls>>

\* After the for loop: the synthesis call of line 276 is made with the
\* results collected.
CallSynthesis_FailOnEmpty ==
  IF results = <<>> THEN
    /\ OrchRaise(Exc("ValueError", "dispatch"))
    /\ UNCHANGED <<synthesis_messages, synthesis_calls>>
  ELSE
    /\ synthesis_messages' = SynthesisMessages(results)
    /\ synthesis_calls' = synthesis_calls + 1
    /\ opc' = "synthesis"
    /\ UNCHANGED <<oexc, oresult>>
CallSynthesis ==
  /\ synthesis_messages' = SynthesisMessages(results)
  /\ synthesis_calls' = synthesis_calls + 1
  /\ opc' = "synthesis"
  /\ UNCHANGED <<oexc, oresult>>

\* Lines 138-141: the conversation a run starts with, a new list holding
\* the agent's system message and the prompt.
SeedMessages_KeepEarlier(a, prompt) ==
  << [role |-> "system", content |-> SystemMessage(a)] >>
    \o [i \in 1..Len(SelectSeq(started, LAMBDA st : st.agent = a)) |->
         [role |-> "user", content |-> SelectSeq(started, LAMBDA st : st.agent = a)[i].prompt]]
    \o << [role |-> "user", content |-> prompt] >>
SeedMessages(a, prompt) ==
  << [role |-> "system", content |-> SystemMessage(a)],
     [role |-> "user", content |-> prompt] >>

\* Lines 259-260 on a task that is no dict: task.get raises AttributeError
\* inside the try block.
GetFails_PassedOver ==
  /\ idx' = idx + 1
  /\ UNCHANGED <<opc, oexc, oresult, agt, started, invocations, outcomes, model_calls>>
GetFails ==
  /\ OrchRaise(Exc("AttributeError", "dispatch"))
  /\ UNCHANGED <<idx, agt, started, invocations, outcomes, model_calls>>

\* One step of the for loop (lines 258-263): a task that is no dict has no
\* .get; a registered agent_name starts that sub-agent's run, which seeds
\* its conversation and makes its first model call (lines 138-149); any
\* other agent_name is passed over.
ODispatch ==
  /\ opc = "dispatch"
  /\ idx <= Len(tasks)
  /\ LET task == tasks[idx] IN
     IF task.kind # "dict" THEN GetFails
     ELSE
       LET agent_name == Get(task.d, "agent_name")
           sub_task == Get(task.d, "sub_task")
       IN
       IF Registered(agent_name) THEN
         /\ opc' = "sub_run"
         /\ agent' = sub_agents[agent_name]
         /\ messages' = SeedMessages(sub_agents[agent_name], sub_task)
         /\ apc' = "await_model"
         /\ response' = NoResponse
         /\ rounds' = 0
         /\ aexc' = NoExc
         /\ aresult' = NoResult
         /\ started' = Append(started, [agent |-> sub_agents[agent_name], prompt |-> sub_task])
         /\ invocations' = <<>>
         /\ outcomes' = <<>>
         /\ model_calls' = 1
         /\ UNCHANGED <<idx, oexc, oresult>>
       ELSE SkipStep
  /\ UNCHANGED <<registry, planning_content, tasks, results, synthesis_messages,
                 returned, executed, function_calls, planning_calls, synthesis_calls>>

\* The sub-agent's run has ended (lines 263-268): its value is appended to
\* results and the loop goes on; an exception that left the run is raised
\* inside the orchestrator's loop.  The run's conversation is dropped.
OCollect ==
  /\ opc = "sub_run"
  /\ apc \in {"returned", "raised"}
  /\ LET task == tasks[idx]
         agent_name == Get(task.d, "agent_name")
         sub_task == Get(task.d, "sub_task")
     IN
     IF apc = "raised" THEN
       /\ OrchRaise(Exc(aexc.type, "dispatch"))
       /\ UNCHANGED <<idx, results>>
     ELSE
       /\ results' = Collected(results, agent_name, sub_task, aresult)
       /\ idx' = idx + 1
       /\ opc' = "dispatch"
       /\ UNCHANGED <<oexc, oresult>>
  /\ apc' = "idle"
  /\ agent' = NoAgent
  /\ messages' = <<>>
  /\ response' = NoResponse
  /\ rounds' = 0
  /\ invocations' = <<>>
  /\ outcomes' = <<>>
  /\ model_calls' = 0
  /\ UNCHANGED <<registry, planning_content, tasks, synthesis_messages, aexc, aresult, hist,
                 planning_calls, synthesis_calls>>

\* The for loop is over: the synthesis call of line 276 is made.
OSynthesize_BeforeLastReturn ==
  /\ \/ opc = "dispatch" /\ idx > Len(tasks)
     \/ opc = "sub_run" /\ idx = Len(tasks)
  /\ CallSynthesis
  /\ UNCHANGED <<registry, planning_content, tasks, idx, results, agt, hist,
                 invocations, outcomes, model_calls, planning_calls>>
OSynthesize ==
  /\ opc = "dispatch"
  /\ idx > Len(tasks)
  /\ CallSynthesis
  /\ UNCHANGED <<registry, planning_content, tasks, idx, results, agt, hist,
                 invocations, outcomes, model_calls, planning_calls>>

\* The synthesis call answers (lines 276-287).
OSynthesisReply(r) ==
  /\ opc = "synthesis"
  /\ IF r.finish_reason = "error" THEN
       OrchRaise(Exc("UpstreamFailure", "synthesis"))
     ELSE
       /\ oresult' = OrchData(r.content, results)
       /\ opc' = "done"
       /\ UNCHANGED oexc
  /\ executed' = ExecutedByOrchestrator
  /\ UNCHANGED <<registry, planning_content, tasks, idx, results, synthesis_messages, agt,
                 started, returned, function_calls, counts>>

\* ------------------------------------------------------------ specification

Next ==
  \/ ORun
  \/ \E r \in PlanningReplies : OPlan(r)
  \/ ODispatch
  \/ \E r \in AgentReplies : AgentModelReply(r)
  \/ \E outcome \in ToolOutcomes : AgentToolRound(outcome)
  \/ OCollect
  \/ OSynthesize
  \/ \E r \in SynthesisReplies : OSynthesisReply(r)

Spec == Init /\ [][Next]_vars

\* ----------------------------------------------------------------- claims

IsSuccess(v) == DOMAIN v = {"data"}
IsError(v) == DOMAIN v = {"error"}
AgentRunning == apc \in {"await_model", "tool_round"}

\* C1: SwarmAgent.run never raises.  Whatever the endpoint replies, and with
\* a failure at a model call, at a tool invocation or while decoding the
\* arguments, no exception leaves the run; a run that has ended has returned
\* the success value or, after a failure, a value with an error field; and
\* every run started has returned unless it is still in progress.
C1_AgentRunAlwaysReturns ==
  /\ apc # "raised"
  /\ apc = "returned" =>
       IF aexc = NoExc THEN IsSuccess(aresult) ELSE IsError(aresult)
  /\ aexc # NoExc => apc \in {"returned", "idle"} /\ IsError(aresult)
  /\ Len(returned) = Len(started) - (IF AgentRunning THEN 1 ELSE 0)

\* A run whose json.loads of the arguments failed has returned an error value.
C1_Witness ==
  /\ apc = "returned"
  /\ aexc # NoExc
  /\ aexc.site = "decode"
  /\ IsError(aresult)

\* C2: OrchestratorAgent.run never raises.  A failure in the planning call,
\* in parsing the plan, during dispatch or in the synthesis call ends the
\* run with a returned value that has an error field; a run without failure
\* returns the success value.
C2_OrchestratorRunAlwaysReturns ==
  /\ opc # "raised"
  /\ opc = "done" =>
       IF oexc = NoExc THEN IsSuccess(oresult) ELSE IsError(oresult)
  /\ oexc # NoExc =>
       /\ opc = "done"
       /\ IsError(oresult)
       /\ oexc.site \in {"planning", "parse", "dispatch", "synthesis"}

\* A run whose synthesis call failed has returned an error value.
C2_Witness ==
  /\ opc = "done"
  /\ oexc # NoExc
  /\ oexc.site = "synthesis"
  /\ IsError(oresult)

\* C3: there is a round bound greater than 0 such that a run whose completed
\* tool rounds exceed it has been aborted with a RoundLimitExceeded error
\* value, rather than calling the model again.
C3_RoundLimitEnforced ==
  \E bound \in 1..(MaxCalls - 1) :
    rounds > bound =>
      /\ apc = "returned"
      /\ IsError(aresult)
      /\ aresult.error.msg = "RoundLimitExceeded"

\* A task of the plan that is a step naming a registered sub-agent.
Resolvable(task) ==
  /\ task.kind = "dict"
  /\ Get(task.d, "agent_name") \in DOMAIN sub_agents

\* C4: the analysis_results of a successful run are the plan's steps whose
\* agent_name is a registered sub-agent, in plan order, one entry per step:
\* each entry carries the step's agent_name and sub_task and the value that
\* sub-agent's run returned, and the runs were made in that order.
C4_ResultsInPlanOrder ==
  (opc = "done" /\ IsSuccess(oresult)) =>
    LET ar == oresult.data.analysis_results
        steps == SelectSeq(tasks, Resolvable)
    IN
    /\ Len(ar) = Len(steps)
    /\ Len(returned) = Len(steps)
    /\ Len(started) = Len(steps)
    /\ \A i \in 1..Len(steps) :
         /\ ar[i].agent = steps[i].d.agent_name
         /\ ar[i].task = Get(steps[i].d, "sub_task")
         /\ ar[i].result = returned[i]
         /\ started[i] = [agent |-> sub_agents[steps[i].d.agent_name],
                          prompt |-> Get(steps[i].d, "sub_task")]

\* A successful run over a plan that names the same sub-agent twice, whose
\* two runs returned different values.
C4_Witness ==
  /\ opc = "done"
  /\ IsSuccess(oresult)
  /\ Len(oresult.data.analysis_results) = 2
  /\ oresult.data.analysis_results[1].agent = oresult.data.analysis_results[2].agent
  /\ oresult.data.analysis_results[1].result # oresult.data.analysis_results[2].result

\* The planning reply was parsed.
PlanParsed == opc \notin {"idle", "planning"} /\ json_loads(planning_content).ok

\* Every task of the plan is a step, and none names a registered sub-agent.
NoResolvableStep ==
  \A i \in 1..Len(tasks) :
    /\ tasks[i].kind = "dict"
    /\ Get(tasks[i].d, "agent_name") \notin DOMAIN sub_agents

\* C5: when the plan has no step, or no step that names a registered
\* sub-agent, the run starts no sub-agent run, still makes the synthesis
\* call, with an empty results list, and returns the success value with
\* analysis_results empty; an error value comes only from a failure of the
\* synthesis call itself.
C5_EmptyPlanStillSynthesizes ==
  (opc = "done" /\ PlanParsed /\ NoResolvableStep) =>
    /\ started = <<>>
    /\ synthesis_messages = SynthesisMessages(<<>>)
    /\ IF oexc = NoExc
       THEN IsSuccess(oresult) /\ oresult.data.analysis_results = <<>>
       ELSE oexc.site = "synthesis"

\* A run over a plan of two steps, neither naming a registered sub-agent,
\* has returned the success value.
C5_Witness ==
  /\ opc = "done"
  /\ PlanParsed
  /\ NoResolvableStep
  /\ Len(tasks) = 2
  /\ IsSuccess(oresult)
  /\ Len(synthesis_messages) = 2

\* The for loop stands before a step whose agent_name is not registered.
AtUnresolvableStep ==
  /\ opc = "dispatch"
  /\ idx <= Len(tasks)
  /\ tasks[idx].kind = "dict"
  /\ Get(tasks[idx].d, "agent_name") \notin DOMAIN sub_agents

\* C6: a step whose agent_name is not a registered sub-agent is passed
\* over: the step taken from it starts no sub-agent run, appends nothing to
\* results, raises nothing, and leaves the loop at the next step.
C6_UnresolvableStepSkipped ==
  [][AtUnresolvableStep =>
       /\ opc' = "dispatch"
       /\ idx' = idx + 1
       /\ results' = results
       /\ started' = started
       /\ apc' = apc
       /\ oexc' = oexc
       /\ oresult' = oresult]_vars

\* After a first step that is not registered, the second step's sub-agent
\* run is in progress.
C6_Witness ==
  /\ opc = "sub_run"
  /\ idx = 2
  /\ tasks[1].kind = "dict"
  /\ Get(tasks[1].d, "agent_name") \notin DOMAIN sub_agents
  /\ results = <<>>
  /\ Len(started) = 1

\* C7: a planning reply that parses to a single JSON object is a plan of
\* exactly that one step: tasks is what the one-element array holding the
\* object gives, and at most one sub-agent run is made.
C7_SingleObjectIsOneStepPlan ==
  (PlanParsed /\ json_loads(planning_content).val.kind = "dict") =>
    LET object == json_loads(planning_content).val
        asArray == json_loads(json_dumps(JList(<<object>>)))
    IN
    /\ tasks = <<object>>
    /\ asArray.ok
    /\ tasks = asArray.val.items
    /\ Len(started) <= 1
    /\ Len(results) <= 1

\* A run whose planning reply was a single object naming a registered
\* sub-agent has returned with one result.
C7_Witness ==
  /\ opc = "done"
  /\ PlanParsed
  /\ json_loads(planning_content).val.kind = "dict"
  /\ IsSuccess(oresult)
  /\ Len(oresult.data.analysis_results) = 1

\* The planning call has answered with a content that is no JSON.
PlanUnparseable ==
  /\ opc \notin {"idle", "planning"}
  /\ planning_content \in NonJsonContents

\* C8: a planning reply that is no JSON is fatal for the run: the run has
\* returned a value with an error field, no sub-agent run was started and
\* the synthesis call was not made.
C8_MalformedPlanIsFatal ==
  PlanUnparseable =>
    /\ opc = "done"
    /\ IsError(oresult)
    /\ started = <<>>
    /\ results = <<>>
    /\ Len(synthesis_messages) = 0

\* A run whose planning reply was an array cut off before its end.
C8_Witness ==
  /\ opc = "done"
  /\ planning_content \in NonJsonContents
  /\ Len(planning_content) = 2
  /\ IsError(oresult)

\* C9: once dispatch is over and the synthesis call was made, the value the
\* run returns carries analysis_results equal to the results collected,
\* whether the synthesis call succeeded or failed.
C9_ResultsKeptWhateverSynthesis ==
  (opc = "done" /\ Len(synthesis_messages) # 0) =>
    LET v == IF "data" \in DOMAIN oresult THEN oresult.data ELSE oresult IN
    /\ "analysis_results" \in DOMAIN v
    /\ v.analysis_results = results

\* C10: an agent runs an executable only when the requested name is in the
\* tool set declared for that agent.
C10_OnlyDeclaredToolsRun ==
  \A e \in executed : e.tool \in tools[e.agent]

\* The run stands before the call of a tool whose name its registry does
\* not hold, with arguments that decode.
AtUnknownToolCall ==
  /\ apc = "tool_round"
  /\ response.name \notin DOMAIN tool_implementations[agent]
  /\ json_loads(response.arguments).ok

\* C11, as stated: the request of a tool name that is absent from the
\* registry ends the run with the error value {error: "UnknownTool: ..."}.
C11_UnknownToolReturnsError ==
  [][AtUnknownToolCall =>
       /\ apc' = "returned"
       /\ IsError(aresult')
       /\ aresult'.error.msg = "UnknownTool"]_vars

\* C11, amended: the request of a tool name that is absent from the
\* registry gives no error value.  Each call of the default executable has
\* put the request message and then the tool-result message
\* "Error: Function <name> not found" into the conversation, and no run
\* has returned an UnknownTool error.
C11_UnknownToolAnsweredInConversation ==
  /\ \A i \in 1..Len(invocations) :
       invocations[i] = DefaultLambda =>
         /\ Len(messages) >= 2 + 2 * i
         /\ messages[1 + 2 * i].role = "assistant"
         /\ messages[2 + 2 * i].role = "function"
         /\ messages[2 + 2 * i].name = messages[1 + 2 * i].function_call.name
         /\ messages[2 + 2 * i].name \notin DOMAIN tool_implementations[agent]
         /\ messages[2 + 2 * i].content =
              "Error: Function " \o messages[2 + 2 * i].name \o " not found"
  /\ \A i \in 1..Len(returned) :
       IsError(returned[i]) => returned[i].error.msg # "UnknownTool"

\* After a request for get_weather the model is being called again, with
\* the not-found message in the conversation.
C11_Witness ==
  /\ apc = "await_model"
  /\ invocations = <<DefaultLambda>>
  /\ Len(messages) = 4
  /\ messages[4].content = "Error: Function get_weather not found"

\* C12: a request for a tool name that is not registered does not abort
\* the run: the step taken from it raises nothing, returns nothing,
\* completes the round and calls the model again.
C12_UnknownToolKeepsRunInLoop ==
  [][AtUnknownToolCall =>
       /\ apc' = "await_model"
       /\ rounds' = rounds + 1
       /\ model_calls' = model_calls + 1
       /\ aexc' = NoExc
       /\ aresult' = NoResult
       /\ returned' = returned
       /\ opc' = opc]_vars

\* A run that was asked for an unregistered tool has ended in DONE with the
\* success value.
C12_Witness ==
  /\ apc = "returned"
  /\ IsSuccess(aresult)
  /\ Len(invocations) >= 1
  /\ invocations[1] = DefaultLambda

\* The sub-agent runs that have returned and whose value the loop has
\* already taken up.
CollectedRuns ==
  Len(returned) - (IF opc = "sub_run" /\ apc = "returned" THEN 1 ELSE 0)

\* C13: a failure inside a sub-agent's run ends only that run.  Its error
\* value is that step's entry of results; the orchestrator raises nothing
\* because of it (a dispatch failure comes only from a task that is no
\* object); a run that ends without a failure of its own returns the
\* success value, with the error value in analysis_results and one run made
\* for every step that names a registered sub-agent.
C13_SubAgentFailureIsLocal ==
  (\E i \in 1..Len(returned) : IsError(returned[i])) =>
    /\ Len(results) = CollectedRuns
    /\ \A i \in 1..Len(results) : results[i].result = returned[i]
    /\ oexc # NoExc =>
         \/ oexc.site = "synthesis"
         \/ oexc.site = "dispatch" /\ oexc.type = "AttributeError"
    /\ (opc = "done" /\ oexc = NoExc) =>
         /\ IsSuccess(oresult)
         /\ oresult.data.analysis_results = results
         /\ Len(started) = Len(SelectSeq(tasks, Resolvable))
         /\ synthesis_calls = 1

\* A successful run of two steps whose first sub-agent run failed and whose
\* second one succeeded.
C13_Witness ==
  /\ opc = "done"
  /\ IsSuccess(oresult)
  /\ Len(oresult.data.analysis_results) = 2
  /\ IsError(oresult.data.analysis_results[1].result)
  /\ IsSuccess(oresult.data.analysis_results[2].result)

\* C14: a model reply that is a normal message ends the run at once in
\* DONE.  While that reply is the run's response, the run has returned,
\* without an exception, the value whose output is the reply's content;
\* the reply was the last model call and no tool was called after it: the
\* run made one model call more than it completed rounds, and every tool
\* call belongs to a completed round.
C14_FinalReplyEndsRun ==
  response.finish_reason = "stop" =>
    /\ apc = "returned"
    /\ aexc = NoExc
    /\ aresult = [data |-> [output |-> response.content]]
    /\ returned[Len(returned)] = aresult
    /\ model_calls = rounds + 1
    /\ Len(invocations) = rounds
    /\ Len(messages) = 2 + 2 * rounds

\* A run that ended in DONE after one tool round, with the content of its
\* second reply as output.
C14_Witness ==
  /\ apc = "returned"
  /\ response.finish_reason = "stop"
  /\ rounds = 1
  /\ aresult.data.output = "other answer"

\* The PlanSteps: objects that hold an agent_name and a sub_task.
PlanSteps == { JDict(d) : d \in { o \in PlanObjects : DOMAIN o = {"agent_name", "sub_task"} } }

\* The {agent_name, sub_task} pairs of a list of steps, in order.
Pairs(steps) ==
  [i \in 1..Len(steps) |-> <<Get(steps[i].d, "agent_name"), Get(steps[i].d, "sub_task")>>]

\* C15: round trip of a plan.  For every list of PlanSteps, when the
\* planning content is the JSON text of that list, parsing it raised
\* nothing and tasks holds as many steps with the same
\* {agent_name, sub_task} pairs in the same order.
C15_PlanRoundTrip ==
  \A plan \in SeqsUpTo(PlanSteps, MaxPlan) :
    (opc \notin {"idle", "planning"} /\ planning_content = json_dumps(JList(plan))) =>
      /\ oexc # NoExc => oexc.site # "parse"
      /\ Len(tasks) = Len(plan)
      /\ Pairs(tasks) = Pairs(plan)

\* The plan of a run was the JSON text of two different PlanSteps.
C15_Witness ==
  /\ opc = "done"
  /\ Len(tasks) = 2
  /\ tasks[1] \in PlanSteps
  /\ tasks[2] \in PlanSteps
  /\ tasks[1] # tasks[2]
  /\ planning_content = json_dumps(JList(tasks))

\* The model calls that were made and have not answered yet.
ModelCallsInProgress ==
  (IF opc \in {"planning", "synthesis"} THEN 1 ELSE 0)
    + (IF apc = "await_model" THEN 1 ELSE 0)

\* The sub-agent runs that were started and have not ended yet.
RunsInProgress == Len(started) - Len(returned)

\* C16: the phases of one Orchestrator.run are ordered and sequential.
\* One planning call is made first; a sub-agent run starts only with the
\* plan parsed and no other run in progress; at most one synthesis call is
\* made, with every run ended, and no run starts after it; never two model
\* calls or two sub-agent runs at once.
C16_PhasesSequential ==
  /\ [](/\ opc # "idle" => planning_calls = 1
        /\ (started # <<>> \/ model_calls > 0 \/ synthesis_calls > 0) =>
             planning_calls = 1 /\ PlanParsed
        /\ synthesis_calls <= 1
        /\ synthesis_calls = 1 =>
             RunsInProgress = 0 /\ apc = "idle" /\ idx > Len(tasks)
        /\ ModelCallsInProgress <= 1
        /\ RunsInProgress \in {0, 1}
        /\ RunsInProgress = 1 <=> AgentRunning)
  /\ [][/\ Len(started') > Len(started) =>
             /\ opc = "dispatch"
             /\ RunsInProgress = 0
             /\ synthesis_calls = 0
             /\ Len(started) = Len(results)
        /\ synthesis_calls' > synthesis_calls =>
             /\ opc = "dispatch"
             /\ RunsInProgress = 0
        /\ planning_calls' > planning_calls =>
             /\ opc = "idle"
             /\ started = <<>>
             /\ synthesis_calls = 0]_vars

\* A run with two sub-agent runs has made its synthesis call.
C16_Witness ==
  /\ opc = "synthesis"
  /\ Len(started) = 2
  /\ Len(returned) = 2
  /\ planning_calls = 1
  /\ synthesis_calls = 1

\* C17: a tool round that completes invokes the requested tool once,
\* appends the assistant's request and then the tool's result to the
\* conversation, and calls the model again; the model is called again
\* only by such a round; a run that ends with a success made one model call
\* more than tool invocations.
C17_ToolRoundOrder ==
  [][/\ (apc = "tool_round" /\ apc' = "await_model") =>
          /\ invocations' = Append(invocations, LookupTool(agent, response.name))
          /\ Len(messages') = Len(messages) + 2
          /\ SubSeq(messages', 1, Len(messages)) = messages
          /\ messages'[Len(messages) + 1].role = "assistant"
          /\ messages'[Len(messages) + 1].function_call =
               [name |-> response.name, arguments |-> response.arguments]
          /\ messages'[Len(messages) + 2].role = "function"
          /\ messages'[Len(messages) + 2].name = response.name
          /\ model_calls' = model_calls + 1
     /\ (AgentRunning /\ messages' # messages) =>
          apc = "tool_round" /\ apc' = "await_model"
     /\ (AgentRunning /\ model_calls' > model_calls) =>
          apc = "tool_round" /\ Len(invocations') = Len(invocations) + 1
     /\ (AgentRunning /\ apc' = "returned" /\ IsSuccess(aresult')) =>
          model_calls' = Len(invocations') + 1
    ]_vars

\* A run that made two tool invocations and three model calls has ended
\* with a success.
C17_Witness ==
  /\ apc = "returned"
  /\ IsSuccess(aresult)
  /\ Len(invocations) = 2
  /\ model_calls = 3
  /\ Len(messages) = 6

\* A run of a sub-agent has begun and its conversation is still held.
RunHeld == apc \in {"await_model", "tool_round", "returned"}

\* C18: the conversation of a run starts as the agent's system message and
\* the user message of the task, only grows at its end while the run
\* lasts, keeps its first two messages, and is 2 + 2 * rounds long, rounds
\* being the tool rounds completed.
C18_ConversationAppendOnly ==
  /\ [](RunHeld =>
          /\ Len(messages) = 2 + 2 * rounds
          /\ agent = started[Len(started)].agent
          /\ messages[1] = [role |-> "system", content |-> SystemMessage(agent)]
          /\ messages[2] = [role |-> "user", content |-> started[Len(started)].prompt])
  /\ [][/\ (~RunHeld /\ RunHeld') =>
             /\ Len(messages') = 2
             /\ rounds' = 0
        /\ (RunHeld /\ RunHeld') =>
             /\ Len(messages') >= Len(messages)
             /\ SubSeq(messages', 1, Len(messages)) = messages
             /\ rounds' >= rounds
       ]_vars

\* A run is in its third model call: two rounds were appended to the
\* conversation it started with.
C18_Witness ==
  /\ apc = "await_model"
  /\ rounds = 2
  /\ Len(messages) = 6
  /\ messages[3].role = "assistant"
  /\ messages[6].role = "function"

C20_RegistryUnchanged ==
  /\ [](/\ tools = DeclaredTools
        /\ tool_implementations = [a \in AllAgents |-> ToolImplementations]
        /\ sub_agents = SubAgents)
  /\ [][/\ tools' = tools
        /\ tool_implementations' = tool_implementations
        /\ sub_agents' = sub_agents]_vars

\* A run that looked up a name bound to no tool, and then failed, has
\* ended.
C20_Witness ==
  /\ apc = "returned"
  /\ IsError(aresult)
  /\ \E i \in 1..Len(invocations) : invocations[i] = DefaultLambda
  /\ tool_implementations[agent] = ToolImplementations

\* The plan was parsed and its element j is the first that is no object.
FirstNonObject(j) ==
  /\ PlanParsed
  /\ j \in 1..Len(tasks)
  /\ tasks[j].kind # "dict"
  /\ \A i \in 1..(j - 1) : tasks[i].kind = "dict"

\* C21: a plan element that is no JSON object aborts the whole run.  The
\* loop never passes the first such element and no synthesis call is
\* made; the run ends there with an error value, which holds no result of
\* the earlier steps, and only steps before the element were dispatched.
C21_NonObjectStepAbortsRun ==
  \A j \in 1..MaxPlan :
    FirstNonObject(j) =>
      /\ idx <= j
      /\ synthesis_calls = 0
      /\ Len(started) <= j - 1
      /\ opc \in {"dispatch", "sub_run", "done"}
      /\ opc = "done" =>
           /\ idx = j
           /\ oresult = OrchError(Exc("AttributeError", "dispatch"))
           /\ DOMAIN oresult = {"error"}
           /\ Len(results) = Len(started)

\* A run ended at a second element that is no object, after the first
\* step's sub-agent run was collected.
C21_Witness ==
  /\ opc = "done"
  /\ FirstNonObject(2)
  /\ Len(results) = 1
  /\ IsError(oresult)

\* Every error string a call of this run returned is in the conversation as
\* the function message of its round.
ErrorStringsAppended ==
  RunHeld =>
    \A i \in 1..Len(outcomes) :
      outcomes[i] = "error_string" =>
        /\ i <= rounds
        /\ messages[2 + 2 * i].role = "function"
        /\ messages[2 + 2 * i].content =
             ToolResponse(invocations[i], messages[2 + 2 * i].name, "error_string")

\* A step in which a call returned an error string leaves the run waiting
\* for the model, with no exception and no value returned.
ErrorStringContinues ==
  (Len(outcomes') > Len(outcomes) /\ outcomes'[Len(outcomes')] = "error_string") =>
    /\ apc' = "await_model"
    /\ aexc' = NoExc
    /\ aresult' = NoResult
    /\ Len(messages') = Len(messages) + 2

\* A step that ends the run with an error value caught an exception raised
\* at one of `sites`.
FailsOnlyAt(sites) ==
  (AgentRunning /\ apc' = "returned" /\ IsError(aresult')) =>
    /\ aexc' # NoExc
    /\ aexc'.site \in sites
    /\ aresult' = AgentError(aexc')

\* C22: a tool's error string is appended as a tool result and the run
\* goes back to waiting for the model; a run fails only by an exception
\* raised by the tool call or by the model call.
C22_OnlyToolOrModelExceptionFails ==
  /\ []ErrorStringsAppended
  /\ [][ErrorStringContinues /\ FailsOnlyAt({"tool", "model"})]_vars

\* C22, amended: a tool's error string is appended as a tool result and the
\* run goes back to waiting for the model; a run fails only by an
\* exception, raised by the model call, by the tool call, or by decoding
\* the arguments text of the request before the tool is called.
C22_ErrorStringIsNoFailure ==
  /\ []ErrorStringsAppended
  /\ [][ErrorStringContinues /\ FailsOnlyAt({"decode", "tool", "model"})]_vars

\* search_news returned its error string, and the run went on to end with a
\* success.
C22_Witness ==
  /\ apc = "returned"
  /\ IsSuccess(aresult)
  /\ rounds = 1
  /\ invocations = <<"search_news">>
  /\ outcomes = <<"error_string">>
  /\ messages[4].content = "Error performing news search: failure"

\* Every call that was made returns, and the program takes its next step:
\* the model answers each call (the replies that ask for a tool are at most
\* MaxCalls, so each run gets a reply that asks for none), each tool
\* invocation ends, and the for loop goes on.
\* Whether a run ends does not depend on which text a reply carries, only
\* on its kind, so the replies are drawn from one of each kind: a plan of
\* resolvable steps, unresolvable steps and numbers, a single object, text
\* that is no JSON; a final reply, a request of a declared and of an unknown
\* tool with arguments that decode and that do not; a failing call.
LivePlanElements ==
  { JDict([agent_name |-> "news_searcher", sub_task |-> "find articles"]),
    JDict([agent_name |-> "content_analyzer", sub_task |-> "analyze article"]),
    JDict([agent_name |-> "fact_checker", sub_task |-> "find articles"]),
    JInt }

LivePlanningReplies ==
  {[finish_reason |-> "error"]}
    \cup { [finish_reason |-> "stop", content |-> json_dumps(JList(items))] :
             items \in SeqsUpTo(LivePlanElements, MaxPlan) }
    \cup { [finish_reason |-> "stop", content |-> c] :
             c \in { json_dumps(JDict([agent_name |-> "news_searcher",
                                       sub_task |-> "find articles"])),
                     <<JunkTok>> } }

LiveAgentReplies ==
  { r \in AgentReplies :
      /\ r.finish_reason = "stop" => r.content = "final answer"
      /\ r.finish_reason = "function_call" =>
           /\ r.arguments \in {json_dumps(JDict([query |-> "q"])), <<JunkTok>>} }

LiveSynthesisReplies ==
  { r \in SynthesisReplies : r.finish_reason = "stop" => r.content = "final answer" }

\* Next over these replies.
LiveNext ==
  \/ ORun
  \/ \E r \in LivePlanningReplies : OPlan(r)
  \/ ODispatch
  \/ \E r \in LiveAgentReplies : AgentModelReply(r)
  \/ \E outcome \in ToolOutcomes : AgentToolRound(outcome)
  \/ OCollect
  \/ OSynthesize
  \/ \E r \in LiveSynthesisReplies : OSynthesisReply(r)

\* The program is one thread, so at most one of its steps is enabled in a
\* state and weak fairness of their disjunction is weak fairness of each;
\* the caller's call of run (ORun) is not forced.
RunStep == LiveNext /\ opc # "idle"

Fairness == WF_vars(RunStep)

FairSpec == Init /\ [][LiveNext]_vars /\ Fairness

\* The plan steps the for loop has reached.
StepsReached == IF opc = "sub_run" THEN idx ELSE idx - 1

\* C23: when every call returns and the model stops asking for tools,
\* every SwarmAgent.run ends with a value, and OrchestratorAgent.run, once
\* called, returns; it starts one sub-agent run for each resolvable step it
\* has reached, so never more runs than plan steps.
C23_ConditionalTermination ==
  /\ [](/\ StepsReached <= Len(tasks)
        /\ Len(started) =
             Cardinality({ i \in 1..StepsReached : Resolvable(tasks[i]) }))
  /\ (AgentRunning ~> apc = "returned")
  /\ (opc = "planning" ~> opc = "done")

\* A run over a plan of two steps has returned after two sub-agent runs,
\* one of them with a tool round.
C23_Witness ==
  /\ opc = "done"
  /\ Len(tasks) = 2
  /\ Len(started) = 2
  /\ Len(returned) = 2
  /\ function_calls >= 1

\* C24: OrchestratorAgent.run itself runs no tool.  Every executable that
\* ran did so for a sub-agent whose run the dispatch had started, not for
\* the orchestrator, and a tool is invoked only in a step of the tool round
\* of the sub-agent run in progress.
C24_OrchestratorInvokesNoTool ==
  /\ [](\A e \in executed :
          /\ e.agent # Orchestrator
          /\ \E i \in 1..Len(started) : started[i].agent = e.agent)
  /\ [][(executed' # executed \/ Len(invocations') > Len(invocations)) =>
          /\ opc = "sub_run"
          /\ apc = "tool_round"
          /\ agent # Orchestrator
          /\ agent = started[Len(started)].agent
          /\ \E k \in DOMAIN sub_agents : sub_agents[k] = agent
          /\ executed' \subseteq executed \cup {[agent |-> agent, tool |-> t] :
                                                  t \in DOMAIN ToolImplementations}
       ]_vars

\* A run of the orchestrator has returned a report, and tools were run in
\* it, in the sub-agents' runs.
C24_Witness ==
  /\ opc = "done"
  /\ IsSuccess(oresult)
  /\ executed # {}
  /\ Orchestrator \in DOMAIN tools
  /\ tools[Orchestrator] = {"search_news", "scrape_news_article"}

====
